---------------------------- MODULE Spec2Model ----------------------------
(***************************************************************************)
(* Model of src/app.py, the Streamlit script "Prediccion de salida de      *)
(* hornos".  One execution of the script is a straight line of steps: the  *)
(* four cure-time inputs, the cure-time gate, the shift select box, the    *)
(* file uploader, the column check, the normalisation of horno, fecha and  *)
(* hora, the exit-time prediction, the shift classification, the filter    *)
(* and the summary.  Streamlit runs the script again, from the top, every  *)
(* time a widget changes; the widgets keep their values between runs.      *)
(*                                                                         *)
(* Text the script parses (hora, horno, the shift bounds) is a sequence of *)
(* one-character strings, so that parsing is computed and not assumed.     *)
(* A datetime is [day, sec, us] (day: ordinal of the calendar date, sec:   *)
(* second of the day, us: microsecond), a timedelta is Python's normalised *)
(* [days, seconds, microseconds].                                          *)
(***************************************************************************)
EXTENDS Integers, Sequences, FiniteSets, TLC

VARIABLES
    usuario,        \* what the user has put in the widgets of the page
    pc,             \* the line of the script the run is at
    horno_tiempos,  \* app.py:22  kiln id -> cure time typed in the widget
    turno,          \* app.py:33  the option of the select box
    hora_inicio,    \* app.py:38  text of the shift start
    hora_fin,       \* app.py:38  text of the shift end
    df,             \* app.py:54  the table read from the file, or None
    df_salida,      \* app.py:129 rows of df with en_rango
    resumen,        \* app.py:135 material -> summed cantidad
    total_piezas,   \* app.py:138
    pantalla,       \* what the st.* calls have shown, in order
    corridas        \* earlier runs of this session: turno -> rows in range

vars == <<usuario, pc, horno_tiempos, turno, hora_inicio, hora_fin, df, df_salida,
          resumen, total_piezas, pantalla, corridas>>

-----------------------------------------------------------------------------
(* Bounds of the model *)

\* most rows in an uploaded file
MaxFilas == 3
\* most rows in an uploaded file of a session that is run again
MaxFilasSesion == 1

-----------------------------------------------------------------------------
(* Python values *)

None == [none |-> TRUE]
\* pd.NaT, the result of a failed date or time parse
NaT == [nat |-> TRUE]
\* NaN of a float column (no digits in horno)
NaN == -1
\* an empty cell of a text column, read by pandas as NaN
Blank == ""

SecondsPerDay == 86400
MicrosPerSecond == 1000000
\* seconds in a tenth of an hour
SecondsPerDecima == 360

Digits == {"0", "1", "2", "3", "4", "5", "6", "7", "8", "9"}

DigitVal(c) ==
    CASE c = "0" -> 0 [] c = "1" -> 1 [] c = "2" -> 2 [] c = "3" -> 3
      [] c = "4" -> 4 [] c = "5" -> 5 [] c = "6" -> 6 [] c = "7" -> 7
      [] c = "8" -> 8 [] c = "9" -> 9

\* str.strip(): leading and trailing blanks removed
RECURSIVE LStrip(_)
LStrip(s) == IF s # <<>> /\ Head(s) = " " THEN LStrip(Tail(s)) ELSE s

RECURSIVE RStrip(_)
RStrip(s) ==
    IF s # <<>> /\ s[Len(s)] = " " THEN RStrip(SubSeq(s, 1, Len(s) - 1)) ELSE s

Strip(s) == RStrip(LStrip(s))

\* the fields of s between its colons
RECURSIVE SplitColon(_, _)
SplitColon(s, cur) ==
    IF s = <<>> THEN <<cur>>
    ELSE IF Head(s) = ":" THEN <<cur>> \o SplitColon(Tail(s), <<>>)
    ELSE SplitColon(Tail(s), Append(cur, Head(s)))

\* value of a run of decimal digits
RECURSIVE DecimalVal(_, _)
DecimalVal(s, acc) ==
    IF s = <<>> THEN acc ELSE DecimalVal(Tail(s), 10 * acc + DigitVal(Head(s)))

\* a strptime field %H, %M or %S: one or two digits, at most max
FieldOk(f, max) ==
    /\ Len(f) \in {1, 2}
    /\ \A i \in 1..Len(f) : f[i] \in Digits
    /\ DecimalVal(f, 0) <= max

\* datetime.strptime(s, "%H:%M").time() for nf = 2 and
\* datetime.strptime(s, "%H:%M:%S").time() for nf = 3; NaT stands for the
\* ValueError of a text that does not match the format
strptime_time(s, nf) ==
    LET f == SplitColon(s, <<>>) IN
    IF /\ Len(f) = nf
       /\ FieldOk(f[1], 23)
       /\ FieldOk(f[2], 59)
       /\ (nf = 3 => FieldOk(f[3], 59))
    THEN [hour   |-> DecimalVal(f[1], 0),
          minute |-> DecimalVal(f[2], 0),
          second |-> IF nf = 3 THEN DecimalVal(f[3], 0) ELSE 0]
    ELSE NaT

\* app.py:81-88
parse_hora(h) ==
    LET s == Strip(h) IN
    IF strptime_time(s, 2) # NaT THEN strptime_time(s, 2)
    ELSE IF strptime_time(s, 3) # NaT THEN strptime_time(s, 3)
    ELSE NaT

\* datetime.combine(fecha, hora): the date of fecha, the time of day of hora
combine(fecha, hora) ==
    [day |-> fecha.ordinal,
     sec |-> 3600 * hora.hour + 60 * hora.minute + hora.second,
     us  |-> 0]

\* a < b on datetimes
DtLess(a, b) ==
    \/ a.day < b.day
    \/ a.day = b.day /\ a.sec < b.sec
    \/ a.day = b.day /\ a.sec = b.sec /\ a.us < b.us

\* a <= b on datetimes
DtLeq(a, b) == DtLess(a, b) \/ a = b

\* datetime + timedelta, normalised
DtPlus(dt, td) ==
    LET us  == dt.us + td.microseconds
        sec == dt.sec + td.seconds + (us \div MicrosPerSecond)
    IN [day |-> dt.day + td.days + (sec \div SecondsPerDay),
        sec |-> sec % SecondsPerDay,
        us  |-> us % MicrosPerSecond]

\* A cure time typed in st.number_input is a decimal number of hours,
\* decimas/10 + nano/10^9 with nano < 10^8.  timedelta(hours=v) keeps whole
\* microseconds: the fraction left over, nano * 3.6 us, is rounded to the
\* nearest microsecond, a tie to the even one.
RoundHalfEven(num, den) ==
    LET q == num \div den
        r == num % den
    IN IF 2 * r > den \/ (2 * r = den /\ q % 2 = 1) THEN q + 1 ELSE q

\* timedelta(hours=int(v)): the whole hours of v only
timedelta_whole_hours(v) ==
    LET sec == (v.decimas \div 10) * 10 * SecondsPerDecima
    IN [days         |-> sec \div SecondsPerDay,
        seconds      |-> sec % SecondsPerDay,
        microseconds |-> 0]

timedelta_hours(v) ==
    LET us  == RoundHalfEven(v.nano * 18, 5)
        sec == v.decimas * SecondsPerDecima + (us \div MicrosPerSecond)
    IN [days         |-> sec \div SecondsPerDay,
        seconds      |-> sec % SecondsPerDay,
        microseconds |-> us % MicrosPerSecond]

timedelta_days(n) == [days |-> n, seconds |-> 0, microseconds |-> 0]

-----------------------------------------------------------------------------
(* What the user can put in the widgets *)

Horas(d, n) == [decimas |-> d, nano |-> n]

\* 0.0, the value of an untouched st.number_input
Cero == Horas(0, 0)

Hornos == 1..4

\* app.py:14-20: the four cure times.  All four untouched; kiln 3 left at
\* 0; 8 h everywhere; 8 h, 0.1 h, 0.000000001 h and 0.500000005 h
TiemposPosibles ==
    { [k \in Hornos |-> Cero],
      [k \in Hornos |-> IF k = 3 THEN Cero ELSE Horas(80, 0)],
      [k \in Hornos |-> Horas(80, 0)],
      [k \in Hornos |-> CASE k = 1 -> Horas(80, 0)
                           [] k = 2 -> Horas(1, 0)
                           [] k = 3 -> Horas(0, 1)
                           [] k = 4 -> Horas(5, 5)] }

\* app.py:35: the options of the select box
Turnos == {"6:00 a.m. - 2:00 p.m.", "2:00 p.m. - 10:00 p.m.",
           "10:00 p.m. - 6:00 a.m."}

Fila(f, h, k, c, m) ==
    [fechaCaptura |-> f, hora |-> h, horno |-> k, cantidad |-> c,
     material |-> m]

\* rows a production file can hold
FilasPosibles ==
    { Fila("2024-03-01", <<"0","6",":","0","0">>, <<"1">>, 10, "A"),
      Fila("2024-03-01", <<"1","4",":","0","0",":","0","0">>,
           <<"H","1">>, 5, "B"),
      Fila("2024-03-01", <<" ","2","2",":","0","0"," ">>, <<"1">>, 3, "A"),
      Fila("2024-03-02", <<"5",":","3","0">>, <<"9">>, 7, "A"),
      Fila("2024-03-01", <<"0","6",":","0","0">>, <<"s","/","n">>, 4, "B"),
      Fila("n/a", <<"0","6",":","0","0">>, <<"1">>, 2, "A"),
      Fila("2024-03-01", <<"2","5",":","0","0">>, <<"1">>, 8, "B"),
      Fila("2024-03-01", <<"1","3",":","5","9",":","5","9">>,
           <<"3",".","0">>, 6, Blank),
      Fila("2024-03-02", <<"2","3",":","0","0">>, <<"0","2">>, 1, "B") }

\* the files of at most n rows
RECURSIVE Tablas(_)
Tablas(n) ==
    IF n = 0 THEN {<<>>}
    ELSE LET menos == Tablas(n - 1) IN
         menos \cup { Append(t, f) : t \in {u \in menos : Len(u) = n - 1},
                                     f \in FilasPosibles }

\* app.py:72
columnas_necesarias == {"fechaCaptura", "hora", "horno", "cantidad", "material"}

\* a header cell: a column name, perhaps with blanks around it
Celda(n, b) == [texto |-> n, blancos |-> b]

Encabezados ==
    { {Celda(n, 0) : n \in columnas_necesarias},
      {Celda(n, IF n = "material" THEN 1 ELSE 0) : n \in columnas_necesarias},
      {Celda(n, 0) : n \in columnas_necesarias \ {"material"}},
      {Celda(n, 0) : n \in columnas_necesarias \ {"hora", "horno"}} }

\* what st.file_uploader can return: nothing, a file that cannot be read,
\* a file with the five columns and at most n rows, or a one-row file with
\* any of the headers
Archivos(n) ==
    {None}
    \cup { [legible |-> TRUE,
           columnas |-> {Celda(c, 0) : c \in columnas_necesarias},
           filas |-> t] : t \in Tablas(n) }
    \cup { [legible |-> l, columnas |-> e, filas |-> t] :
             l \in BOOLEAN, e \in Encabezados, t \in Tablas(1) }

-----------------------------------------------------------------------------
(* Helpers of the steps *)

\* r with column c set to v (a new column, or an existing one replaced)
Con(r, c, v) == [k \in DOMAIN r \cup {c} |-> IF k = c THEN v ELSE r[k]]

\* pd.read_csv / pd.read_excel and app.py:61: the columns named by the
\* stripped header, the rows indexed from 0
LeerTabla(a) ==
    LET cols == {c.texto : c \in a.columnas} IN
    [columns |-> cols,
     filas   |-> [i \in 1..Len(a.filas) |->
                    [c \in cols \cup {"index"} |->
                       IF c = "index" THEN i - 1 ELSE a.filas[i][c]]]]

\* str.extract(r"(\d+)"): the first run of digits of s, <<>> when none
RECURSIVE TakeDigits(_)
TakeDigits(s) ==
    IF s # <<>> /\ Head(s) \in Digits
    THEN <<Head(s)>> \o TakeDigits(Tail(s)) ELSE <<>>

RECURSIVE ExtractDigits(_)
ExtractDigits(s) ==
    IF s = <<>> THEN <<>>
    ELSE IF Head(s) \in Digits THEN TakeDigits(s)
    ELSE ExtractDigits(Tail(s))

\* app.py:78: astype(str).str.extract(r"(\d+)").astype(float)
normalizar_horno(h) ==
    IF ExtractDigits(h) = <<>> THEN NaN ELSE DecimalVal(ExtractDigits(h), 0)

\* pd.to_datetime(..., errors="coerce") on the date texts of the rows
to_datetime(s) ==
    CASE s = "2024-03-01" -> [ordinal |-> 738946]
      [] s = "2024-03-02" -> [ordinal |-> 738947]
      [] OTHER -> NaT

\* the gate looking only at the first kiln
tiempos_primer_horno == horno_tiempos[1] = Cero

\* the gate with all() in the place of any()
tiempos_todos_en_cero == \A k \in DOMAIN horno_tiempos : horno_tiempos[k] = Cero

\* app.py:26: any(v == 0 for v in horno_tiempos.values())
tiempos_incompletos == \E k \in DOMAIN horno_tiempos : horno_tiempos[k] = Cero

\* an error message that lists the columns the table lacks
columnas_que_faltan(d) == columnas_necesarias \ d.columns

\* app.py:74: the columns the error message lists
columnas_en_el_error(d) == columnas_necesarias

\* calcular_salida taking the cure time of kiln 1 for a kiln not in the table
calcular_salida_horno_1(row) ==
    LET tiempo_horno ==
            IF row.horno # NaN /\ row.horno \in DOMAIN horno_tiempos
            THEN horno_tiempos[row.horno] ELSE horno_tiempos[1]
    IN DtPlus(row.fechaHoraEntrada, timedelta_hours(tiempo_horno))

\* app.py:107-110
calcular_salida(row) ==
    LET tiempo_horno ==
            IF row.horno # NaN /\ row.horno \in DOMAIN horno_tiempos
            THEN horno_tiempos[row.horno] ELSE Cero
    IN DtPlus(row.fechaHoraEntrada, timedelta_hours(tiempo_horno))

\* rango without the step over midnight
rango_mismo_dia(fecha) ==
    <<combine(fecha, strptime_time(hora_inicio, 2)),
      combine(fecha, strptime_time(hora_fin, 2))>>

\* app.py:116-122
rango(fecha) ==
    LET inicio == combine(fecha, strptime_time(hora_inicio, 2))
        fin    == combine(fecha, strptime_time(hora_fin, 2))
    IN IF DtLess(fin, inicio)
       THEN <<inicio, DtPlus(fin, timedelta_days(1))>>
       ELSE <<inicio, fin>>

\* the classifier with an open upper bound
en_rango_abierto(x) ==
    /\ DtLeq(rango(x.fechaCaptura)[1], x.fechaHoraSalida)
    /\ DtLess(x.fechaHoraSalida, rango(x.fechaCaptura)[2])

\* app.py:125, the lambda
en_rango(x) ==
    /\ DtLeq(rango(x.fechaCaptura)[1], x.fechaHoraSalida)
    /\ DtLeq(x.fechaHoraSalida, rango(x.fechaCaptura)[2])

\* sum of cantidad over rows
RECURSIVE SumaCantidad(_)
SumaCantidad(filas) ==
    IF filas = <<>> THEN 0 ELSE Head(filas).cantidad + SumaCantidad(Tail(filas))

\* app.py:135: groupby("material")["cantidad"].sum(); groupby leaves out
\* the rows whose key is NaN
agrupar(filas) ==
    LET claves == {filas[i].material : i \in 1..Len(filas)} \ {Blank} IN
    [m \in claves |->
        SumaCantidad(SelectSeq(filas, LAMBDA r : r.material = m))]

\* app.py:138: the sum of the second column of resumen
RECURSIVE SumaColumna(_, _)
SumaColumna(r, S) ==
    IF S = {} THEN 0
    ELSE LET m == CHOOSE x \in S : TRUE IN r[m] + SumaColumna(r, S \ {m})

-----------------------------------------------------------------------------
(* The run of the script *)

\* one st.* call: the widget, the message and the values the message carries
Mostrar(st, que, datos) == [st |-> st, que |-> que, datos |-> datos]

\* a message that carries no value
Nada == [nada |-> TRUE]

Arranque(u) ==
    /\ usuario = u
    /\ pc = "tiempos"
    /\ horno_tiempos = None
    /\ turno = None
    /\ hora_inicio = None
    /\ hora_fin = None
    /\ df = None
    /\ df_salida = None
    /\ resumen = None
    /\ total_piezas = None
    /\ pantalla = <<>>

Init ==
    /\ \E u \in [tiempos : TiemposPosibles, turno : Turnos,
                  archivo : Archivos(MaxFilas)] : Arranque(u)
    /\ corridas = <<>>

\* app.py:12-24
IngresarTiempos ==
    /\ pc = "tiempos"
    /\ horno_tiempos' = usuario.tiempos
    /\ pantalla' = Append(pantalla, Mostrar("write", "tiempos", [tiempos |-> usuario.tiempos]))
    /\ pc' = "gate"
    /\ UNCHANGED <<usuario, turno, hora_inicio, hora_fin, df, df_salida,
                   resumen, total_piezas, corridas>>

\* app.py:26-28
VerificarTiempos ==
    /\ pc = "gate"
    /\ IF tiempos_incompletos
       THEN /\ pantalla' = Append(pantalla,
                               Mostrar("warning", "tiempos_incompletos", Nada))
            /\ pc' = "stop"
       ELSE /\ pantalla' = pantalla
            /\ pc' = "turno"
    /\ UNCHANGED <<usuario, horno_tiempos, turno, hora_inicio, hora_fin, df,
                   df_salida, resumen, total_piezas, corridas>>

\* app.py:33-45
SeleccionarTurno ==
    /\ pc = "turno"
    /\ turno' = usuario.turno
    /\ IF turno' = "6:00 a.m. - 2:00 p.m."
       THEN /\ hora_inicio' = <<"0","6",":","0","0">>
            /\ hora_fin' = <<"1","4",":","0","0">>
       ELSE IF turno' = "10:00 p.m. - 6:00 a.m."
       THEN /\ hora_inicio' = <<"2","2",":","0","0">>
            /\ hora_fin' = <<"0","6",":","0","0">>
       ELSE /\ hora_inicio' = <<"1","4",":","0","0">>
            /\ hora_fin' = <<"2","2",":","0","0">>
    /\ pantalla' = Append(pantalla,
                          Mostrar("info", "analizando",
                                  [inicio |-> hora_inicio', fin |-> hora_fin']))
    /\ pc' = "archivo"
    /\ UNCHANGED <<usuario, horno_tiempos, df, df_salida, resumen,
                   total_piezas, corridas>>

\* app.py:49-66
CargarArchivo ==
    /\ pc = "archivo"
    /\ IF usuario.archivo = None
       THEN /\ df' = None
            /\ pantalla' = pantalla
       ELSE IF ~usuario.archivo.legible
       THEN /\ df' = None
            /\ pantalla' = Append(pantalla, Mostrar("error", "error_al_leer", Nada))
       ELSE /\ df' = LeerTabla(usuario.archivo)
            /\ pantalla' = pantalla
    /\ pc' = "rama"
    /\ UNCHANGED <<usuario, horno_tiempos, turno, hora_inicio, hora_fin,
                   df_salida, resumen, total_piezas, corridas>>

\* app.py:154-155
SinArchivo ==
    /\ pc = "rama"
    /\ df = None
    /\ pantalla' = Append(pantalla, Mostrar("info", "sube_un_archivo", Nada))
    /\ pc' = "fin"
    /\ UNCHANGED <<usuario, horno_tiempos, turno, hora_inicio, hora_fin, df,
                   df_salida, resumen, total_piezas, corridas>>

\* app.py:68-75
ValidarColumnas ==
    /\ pc = "rama"
    /\ df # None
    /\ LET cargado == pantalla
               \o << Mostrar("success", "archivo_cargado",
                             [filas    |-> Len(df.filas),
                              columnas |-> Cardinality(df.columns)]),
                     Mostrar("dataframe", "head", Nada) >>
       IN IF ~(columnas_necesarias \subseteq df.columns)
          THEN /\ pantalla' = Append(cargado,
                      Mostrar("error", "debe_contener_columnas",
                              [columnas |-> columnas_en_el_error(df)]))
               /\ pc' = "stop"
          ELSE /\ pantalla' = cargado
               /\ pc' = "horno"
    /\ UNCHANGED <<usuario, horno_tiempos, turno, hora_inicio, hora_fin, df,
                   df_salida, resumen, total_piezas, corridas>>

\* app.py:78
NormalizarHorno ==
    /\ pc = "horno"
    /\ df' = [df EXCEPT !.filas =
                 [i \in 1..Len(df.filas) |->
                    [df.filas[i] EXCEPT !.horno = normalizar_horno(@)]]]
    /\ pc' = "fechas"
    /\ UNCHANGED <<usuario, horno_tiempos, turno, hora_inicio, hora_fin,
                   df_salida, resumen, total_piezas, pantalla, corridas>>

\* app.py:90-95; neither conversion raises, so the except is never taken
ConvertirFechaHora ==
    /\ pc = "fechas"
    /\ df' = [df EXCEPT !.filas =
                 [i \in 1..Len(df.filas) |->
                    [df.filas[i] EXCEPT !.fechaCaptura = to_datetime(@),
                                        !.hora = parse_hora(@)]]]
    /\ pc' = "dropna"
    /\ UNCHANGED <<usuario, horno_tiempos, turno, hora_inicio, hora_fin,
                   df_salida, resumen, total_piezas, pantalla, corridas>>

\* app.py:98-100
EliminarInvalidas ==
    /\ pc = "dropna"
    /\ IF \E i \in 1..Len(df.filas) :
             df.filas[i].fechaCaptura = NaT \/ df.filas[i].hora = NaT
       THEN /\ pantalla' = Append(pantalla,
                               Mostrar("warning", "filas_omitidas", Nada))
            /\ df' = [df EXCEPT !.filas =
                         SelectSeq(@, LAMBDA r : r.fechaCaptura # NaT
                                                 /\ r.hora # NaT)]
       ELSE /\ pantalla' = pantalla
            /\ df' = df
    /\ pc' = "entrada"
    /\ UNCHANGED <<usuario, horno_tiempos, turno, hora_inicio, hora_fin,
                   df_salida, resumen, total_piezas, corridas>>

\* app.py:103-105
CalcularEntrada ==
    /\ pc = "entrada"
    /\ df' = [columns |-> df.columns \cup {"fechaHoraEntrada"},
              filas   |-> [i \in 1..Len(df.filas) |->
                             Con(df.filas[i], "fechaHoraEntrada",
                                 combine(df.filas[i].fechaCaptura,
                                         df.filas[i].hora))]]
    /\ pc' = "salida"
    /\ UNCHANGED <<usuario, horno_tiempos, turno, hora_inicio, hora_fin,
                   df_salida, resumen, total_piezas, pantalla, corridas>>

\* app.py:107-113.  On a table without rows df.apply(..., axis=1) returns a
\* DataFrame, not a Series, and the assignment of it to the one column
\* fechaHoraSalida raises ValueError, which nothing catches.
CalcularSalida ==
    /\ pc = "salida"
    /\ IF df.filas = <<>>
       THEN /\ df' = df
            /\ pantalla' = Append(pantalla,
                               Mostrar("exception", "ValueError", Nada))
            /\ pc' = "excepcion"
       ELSE /\ df' = [columns |-> df.columns \cup {"fechaHoraSalida"},
                      filas   |-> [i \in 1..Len(df.filas) |->
                                     Con(df.filas[i], "fechaHoraSalida",
                                         calcular_salida(df.filas[i]))]]
            /\ pantalla' = pantalla
            /\ pc' = "rango"
    /\ UNCHANGED <<usuario, horno_tiempos, turno, hora_inicio, hora_fin,
                   df_salida, resumen, total_piezas, corridas>>

\* what a run leaves of a classified row for the runs that follow it in
\* the session: the window of the row and whether its exit is in it
Registro(r) ==
    [index           |-> r.index,
     fechaCaptura    |-> r.fechaCaptura,
     fechaHoraSalida |-> r.fechaHoraSalida,
     inicio          |-> rango(r.fechaCaptura)[1],
     fin             |-> rango(r.fechaCaptura)[2],
     en_rango        |-> r.en_rango]

\* app.py:116-127
Clasificar ==
    /\ pc = "rango"
    /\ df' = [columns |-> df.columns \cup {"en_rango"},
              filas   |-> [i \in 1..Len(df.filas) |->
                             Con(df.filas[i], "en_rango",
                                 en_rango(df.filas[i]))]]
    /\ corridas' = (turno :> [i \in 1..Len(df'.filas) |-> Registro(df'.filas[i])])
                       @@ corridas
    /\ pc' = "filtro"
    /\ UNCHANGED <<usuario, horno_tiempos, turno, hora_inicio, hora_fin,
                   df_salida, resumen, total_piezas, pantalla>>

\* app.py:129
Filtrar ==
    /\ pc = "filtro"
    /\ df_salida' = SelectSeq(df.filas, LAMBDA r : r.en_rango)
    /\ pc' = "resultados"
    /\ UNCHANGED <<usuario, horno_tiempos, turno, hora_inicio, hora_fin, df,
                   resumen, total_piezas, pantalla, corridas>>

\* the columns of the detail table, app.py:145
Detalle(r) ==
    [material |-> r.material, horno |-> r.horno, cantidad |-> r.cantidad,
     fechaHoraSalida |-> r.fechaHoraSalida]

TablaDetalle(filas) == [i \in 1..Len(filas) |-> Detalle(filas[i])]

\* app.py:132-153
Resultados ==
    /\ pc = "resultados"
    /\ IF df_salida = <<>>
       THEN /\ pantalla' = Append(pantalla,
                               Mostrar("warning", "ninguna_produccion", Nada))
            /\ UNCHANGED <<resumen, total_piezas>>
       ELSE /\ resumen' = agrupar(df_salida)
            /\ total_piezas' = SumaColumna(resumen', DOMAIN resumen')
            /\ pantalla' = pantalla
                  \o << Mostrar("success", "resultados", Nada),
                        Mostrar("metric", "piezas_estimadas",
                                [total |-> total_piezas']),
                        Mostrar("dataframe", "resumen", [tabla |-> resumen']),
                        Mostrar("dataframe", "detalle",
                                [tabla |-> TablaDetalle(df_salida)]),
                        Mostrar("download_button", "csv", [tabla |-> resumen']) >>
    /\ pc' = "fin"
    /\ UNCHANGED <<usuario, horno_tiempos, turno, hora_inicio, hora_fin, df,
                   df_salida, corridas>>

Next ==
    \/ IngresarTiempos
    \/ VerificarTiempos
    \/ SeleccionarTurno
    \/ CargarArchivo
    \/ SinArchivo
    \/ ValidarColumnas
    \/ NormalizarHorno
    \/ ConvertirFechaHora
    \/ EliminarInvalidas
    \/ CalcularEntrada
    \/ CalcularSalida
    \/ Clasificar
    \/ Filtrar
    \/ Resultados

Spec == Init /\ [][Next]_vars

-----------------------------------------------------------------------------
(* A session: the same page run again with another shift *)

InitSesion ==
    /\ \E u \in [tiempos : TiemposPosibles, turno : Turnos,
                  archivo : Archivos(MaxFilasSesion)] : Arranque(u)
    /\ corridas = <<>>

\* The user picks another option of the select box (app.py:33), which the
\* page shows only once the cure times have passed app.py:26.  Streamlit
\* then runs the script from its first line with the widgets as they are.
CambiarTurno ==
    /\ pc \in {"fin", "stop", "excepcion"}
    /\ ~tiempos_incompletos
    /\ \E t \in Turnos \ {usuario.turno} :
          usuario' = [usuario EXCEPT !.turno = t]
    /\ pc' = "tiempos"
    /\ horno_tiempos' = None
    /\ turno' = None
    /\ hora_inicio' = None
    /\ hora_fin' = None
    /\ df' = None
    /\ df_salida' = None
    /\ resumen' = None
    /\ total_piezas' = None
    /\ pantalla' = <<>>
    /\ UNCHANGED corridas

NextSesion == Next \/ CambiarTurno

SpecSesion == InitSesion /\ [][NextSesion]_vars

-----------------------------------------------------------------------------
(* Vocabulary of the properties *)

\* the run is over: the script ended, st.stop() was called, or an
\* exception went uncaught
Terminal == pc \in {"fin", "stop", "excepcion"}

Mostro(st, que) ==
    \E i \in 1..Len(pantalla) : pantalla[i].st = st /\ pantalla[i].que = que

\* the failure the specification calls IncompleteConfiguration
IncompleteConfiguration ==
    pc = "stop" /\ Mostro("warning", "tiempos_incompletos")

\* the failure the specification calls MissingColumns
MissingColumns ==
    pc = "stop" /\ Mostro("error", "debe_contener_columnas")

\* a summary or detail rows were produced
HayResultados ==
    \/ Mostro("dataframe", "resumen")
    \/ Mostro("dataframe", "detalle")
    \/ Mostro("metric", "piezas_estimadas")

\* the user gave a file that can be read
EntradaConTabla ==
    usuario.archivo # None /\ usuario.archivo.legible

\* the table of the user's file lacks a required column
EntradaSinColumna ==
    /\ EntradaConTabla
    /\ \E c \in columnas_necesarias :
          \A h \in usuario.archivo.columnas : h.texto # c

\* the required columns the table of the user's file lacks
ColumnasFaltantes ==
    {c \in columnas_necesarias :
        \A h \in usuario.archivo.columnas : h.texto # c}

\* one of the four cure times of the user is 0
EntradaConCero == \E k \in Hornos : usuario.tiempos[k] = Cero

-----------------------------------------------------------------------------
(* C1 *)

\* C1 as the specification states it: schema validation is stage 1 and the
\* cure-time check stage 2, so a run whose file lacks a required column and
\* whose cure times hold a 0 ends with MissingColumns, and
\* IncompleteConfiguration is reported only for a validated table.
C1_SchemaBeforeCureTimes ==
    /\ (Terminal /\ EntradaSinColumna /\ EntradaConCero) => MissingColumns
    /\ IncompleteConfiguration => (EntradaConTabla /\ ~EntradaSinColumna)

\* C1 amended: the cure-time check comes first.  A run whose cure times
\* hold a 0 ends with IncompleteConfiguration without the file being read,
\* also when the file lacks a required column, and MissingColumns is
\* reported only when all four cure times are different from 0.
C1_CureTimesBeforeSchema ==
    /\ (Terminal /\ EntradaSinColumna /\ EntradaConCero)
          => (IncompleteConfiguration /\ ~MissingColumns /\ df = None)
    /\ MissingColumns => ~EntradaConCero
    /\ IncompleteConfiguration => df = None

C1_Witness ==
    /\ Terminal
    /\ EntradaSinColumna
    /\ EntradaConCero
    /\ IncompleteConfiguration

-----------------------------------------------------------------------------
(* C7 *)

\* C7 as the specification states it: when a required column is absent
\* from the table the run has read from the uploaded file, the run fails
\* with MissingColumns, the error names the set of missing columns, no row
\* has been normalised and no summary or detail rows are produced.
C7_MissingColumnsNamed ==
    (Terminal /\ df # None /\ EntradaSinColumna) =>
        /\ MissingColumns
        /\ pantalla[Len(pantalla)].datos.columnas = ColumnasFaltantes
        /\ df = LeerTabla(usuario.archivo)
        /\ ~HayResultados

\* C7 amended: when a required column is absent from the table the run
\* has read from the uploaded file, the run stops with MissingColumns, the
\* error lists the five required columns (not the missing ones), the table
\* is as it was read, with no row normalised, predicted or classified, and
\* no summary or detail rows are produced.
C7_MissingColumnsStops ==
    (Terminal /\ df # None /\ EntradaSinColumna) =>
        /\ MissingColumns
        /\ pantalla[Len(pantalla)].que = "debe_contener_columnas"
        /\ pantalla[Len(pantalla)].datos.columnas = columnas_necesarias
        /\ df = LeerTabla(usuario.archivo)
        /\ df_salida = None
        /\ corridas = <<>>
        /\ ~HayResultados

C7_Witness ==
    /\ MissingColumns
    /\ ColumnasFaltantes = {"hora", "horno"}
    /\ Len(df.filas) = 1

-----------------------------------------------------------------------------
(* C8 *)

\* C8: when one of the four cure times is 0 the run fails with
\* IncompleteConfiguration whatever file the user has, also none: the
\* script goes from the gate to st.stop(), the file is never read, no row
\* is processed and no summary or detail rows are produced.
C8_IncompleteConfigurationFirst ==
    EntradaConCero =>
        /\ pc \in {"tiempos", "gate", "stop"}
        /\ pc = "stop" => IncompleteConfiguration
        /\ df = None
        /\ df_salida = None
        /\ corridas = <<>>
        /\ ~HayResultados
        /\ ~MissingColumns

C8_Witness ==
    /\ IncompleteConfiguration
    /\ usuario.tiempos[3] = Cero
    /\ usuario.tiempos[1] # Cero
    /\ EntradaConTabla
    /\ Len(usuario.archivo.filas) = 1
    /\ usuario.archivo.filas[1].horno = <<"1">>

C8_WitnessSinArchivo ==
    /\ IncompleteConfiguration
    /\ usuario.archivo = None

-----------------------------------------------------------------------------
(* C2 *)

\* the rows have their exit timestamp
ConSalida ==
    \/ pc \in {"rango", "filtro", "resultados"}
    \/ pc = "fin" /\ df # None

\* the cure time the user typed for the kiln of row r, 0 h for a kiln
\* that is none of the four
TiempoDe(r) ==
    IF r.horno \in Hornos THEN usuario.tiempos[r.horno] ELSE Cero

\* whole seconds from the entry timestamp of r to its exit timestamp, the
\* microseconds counted apart
SegundosEnHorno(r) ==
    (r.fechaHoraSalida.day - r.fechaHoraEntrada.day) * SecondsPerDay
      + (r.fechaHoraSalida.sec - r.fechaHoraEntrada.sec)

\* fifths of a microsecond from entry to exit, beyond the whole tenths of
\* an hour of the cure time d (0.000000001 h is 18 fifths of a microsecond)
QuintosDeMicro(r, d) ==
    5 * ((SegundosEnHorno(r) - d.decimas * SecondsPerDecima) * MicrosPerSecond
           + r.fechaHoraSalida.us - r.fechaHoraEntrada.us)

\* the exit of r is within tol fifths of a microsecond of entry + d hours
SalidaEs(r, d, tol) ==
    /\ SegundosEnHorno(r) - d.decimas * SecondsPerDecima \in 0..SecondsPerDecima
    /\ QuintosDeMicro(r, d) - 18 * d.nano \in (0 - tol)..tol

-----------------------------------------------------------------------------
(* C3 *)

\* the instant of day d at h o'clock
Reloj(d, h) == [day |-> d, sec |-> 3600 * h, us |-> 0]

\* C3: on a row of capture date D the shift 06:00-14:00 is the window
\* [D 06:00, D 14:00], the shift 14:00-22:00 is [D 14:00, D 22:00] and the
\* shift 22:00-06:00 is [D 22:00, (D+1) 06:00]; the end is on day D+1 when
\* the end time of day is before the start time of day and on day D
\* otherwise.
C3_ShiftWindows ==
    \A t \in DOMAIN corridas :
        \A i \in 1..Len(corridas[t]) :
            LET v == corridas[t][i]
                D == v.fechaCaptura.ordinal
            IN /\ t = "6:00 a.m. - 2:00 p.m." =>
                     v.inicio = Reloj(D, 6) /\ v.fin = Reloj(D, 14)
               /\ t = "2:00 p.m. - 10:00 p.m." =>
                     v.inicio = Reloj(D, 14) /\ v.fin = Reloj(D, 22)
               /\ t = "10:00 p.m. - 6:00 a.m." =>
                     v.inicio = Reloj(D, 22) /\ v.fin = Reloj(D + 1, 6)
               /\ v.inicio.day = D
               /\ v.fin.day = (IF v.fin.sec < v.inicio.sec THEN D + 1 ELSE D)

\* a row of the second day classified against the night shift
C3_Witness ==
    /\ "10:00 p.m. - 6:00 a.m." \in DOMAIN corridas
    /\ \E i \in 1..Len(corridas["10:00 p.m. - 6:00 a.m."]) :
          LET v == corridas["10:00 p.m. - 6:00 a.m."][i]
          IN /\ v.fechaCaptura = [ordinal |-> 738947]
             /\ v.fin = [day |-> 738948, sec |-> 21600, us |-> 0]

-----------------------------------------------------------------------------
(* C4 *)

\* the rows have their en_rango
Clasificado ==
    \/ pc \in {"filtro", "resultados"}
    \/ pc = "fin" /\ df # None

\* seconds from 00:00 of the capture date of r to its exit timestamp
SegundosDesdeFecha(r) ==
    (r.fechaHoraSalida.day - r.fechaCaptura.ordinal) * SecondsPerDay
      + r.fechaHoraSalida.sec

\* the exit of r is at or after hour h of its capture date
DesdeLas(r, h) == SegundosDesdeFecha(r) >= 3600 * h

\* the exit of r is at or before hour h of its capture date (h over 24:
\* of the day after)
HastaLas(r, h) ==
    \/ SegundosDesdeFecha(r) < 3600 * h
    \/ SegundosDesdeFecha(r) = 3600 * h /\ r.fechaHoraSalida.us = 0

\* the exit of r is in the window of shift t on the capture date of r,
\* both ends included
EnTurno(r, t) ==
    CASE t = "6:00 a.m. - 2:00 p.m."  -> DesdeLas(r, 6) /\ HastaLas(r, 14)
      [] t = "2:00 p.m. - 10:00 p.m." -> DesdeLas(r, 14) /\ HastaLas(r, 22)
      [] t = "10:00 p.m. - 6:00 a.m." -> DesdeLas(r, 22) /\ HastaLas(r, 30)

\* C4: a usable row is en_rango exactly when its exit timestamp is in the
\* selected shift window anchored at the row's own capture date, the two
\* ends of the window included.
C4_InShiftInclusive ==
    Clasificado =>
        \A i \in 1..Len(df.filas) :
            df.filas[i].en_rango = EnTurno(df.filas[i], turno)

\* two rows of different capture dates are both in the night shift, one
\* of them with its exit exactly at the end of its window
C4_Witness ==
    /\ Clasificado
    /\ turno = "10:00 p.m. - 6:00 a.m."
    /\ \E i, j \in 1..Len(df.filas) :
          /\ df.filas[i].fechaCaptura # df.filas[j].fechaCaptura
          /\ df.filas[i].en_rango
          /\ df.filas[j].en_rango
          /\ SegundosDesdeFecha(df.filas[i]) = 3600 * 30
          /\ df.filas[i].fechaHoraSalida.us = 0

-----------------------------------------------------------------------------
(* C5 *)

\* the rows of df that are en_rango
FilasEnTurno == SelectSeq(df.filas, LAMBDA r : r.en_rango)

\* the quantity of the rows en_rango of material m
CantidadEnTurno(m) ==
    SumaCantidad(SelectSeq(FilasEnTurno, LAMBDA r : r.material = m))

\* C5: the summary holds exactly the materials with a row en_rango, each
\* with the sum of the quantity of its rows en_rango, and the total shown
\* is the sum of the quantity of all the rows en_rango.
C5_SummaryAndTotal ==
    Mostro("metric", "piezas_estimadas") =>
        /\ DOMAIN resumen =
              {FilasEnTurno[i].material : i \in 1..Len(FilasEnTurno)} \ {Blank}
        /\ \A m \in DOMAIN resumen : resumen[m] = CantidadEnTurno(m)
        /\ total_piezas = SumaCantidad(FilasEnTurno)

\* What holds of C5 on the code: the summary holds the materials of the
\* rows en_rango that have one, each with the sum of its rows, and the
\* total is the sum over the rows en_rango that have a material.
C5_SummaryOfRowsWithMaterial ==
    Mostro("metric", "piezas_estimadas") =>
        /\ DOMAIN resumen =
              {FilasEnTurno[i].material : i \in 1..Len(FilasEnTurno)} \ {Blank}
        /\ \A m \in DOMAIN resumen : resumen[m] = CantidadEnTurno(m)
        /\ total_piezas =
              SumaCantidad(SelectSeq(FilasEnTurno, LAMBDA r : r.material # Blank))

-----------------------------------------------------------------------------
(* C6 *)

\* row j of the user's file has a date and a time that parse
Utilizable(j) ==
    /\ to_datetime(usuario.archivo.filas[j].fechaCaptura) # NaT
    /\ parse_hora(usuario.archivo.filas[j].hora) # NaT

\* the positions, counted from 0, of the usable rows of the user's file
IndicesUtilizables ==
    {j - 1 : j \in {k \in 1..Len(usuario.archivo.filas) : Utilizable(k)}}

\* a row of the user's file has a date or a time that does not parse
HayNoUtilizables ==
    \E j \in 1..Len(usuario.archivo.filas) : ~Utilizable(j)

\* the user gave cure times and a table that pass the two checks
EntradaValida ==
    EntradaConTabla /\ ~EntradaSinColumna /\ ~EntradaConCero

\* C6: rows whose date or time does not parse never abort the run; the
\* run goes on with the other rows and reports rowsTotal, the number of
\* rows of the file, and rowsDropped, the number of rows left out.
C6_DroppedRowsCounted ==
    (Terminal /\ EntradaValida /\ HayNoUtilizables) =>
        /\ pc = "fin"
        /\ {df.filas[i].index : i \in 1..Len(df.filas)} = IndicesUtilizables
        /\ \E i \in 1..Len(pantalla) :
              /\ "filas" \in DOMAIN pantalla[i].datos
              /\ pantalla[i].datos.filas = Len(usuario.archivo.filas)
        /\ \E i \in 1..Len(pantalla) :
              /\ "omitidas" \in DOMAIN pantalla[i].datos
              /\ pantalla[i].datos.omitidas =
                    Len(usuario.archivo.filas) - Cardinality(IndicesUtilizables)

-----------------------------------------------------------------------------
(* C9 *)

\* the kiln of row r is none of the four of the cure table
SinHorno(r) == r.horno \notin Hornos

-----------------------------------------------------------------------------
(* C10 *)

\* the session has classified the rows against each of the three shifts
TresCorridas == DOMAIN corridas = Turnos

\* the shifts in which row i was found en_rango
TurnosDe(i) == {t \in Turnos : corridas[t][i].en_rango}

\* the exit of v is exactly at hour h of its capture date
ALas(v, h) ==
    SegundosDesdeFecha(v) = 3600 * h /\ v.fechaHoraSalida.us = 0

\* C10: over the three shifts, with the same cure times and file, a
\* usable row of capture date D is en_rango in some shift exactly when its
\* exit timestamp is in [D 06:00, (D+1) 06:00], in two shifts exactly when
\* its exit timestamp is D 14:00 or D 22:00, and never in all three: the
\* shifts count a row on a boundary twice and leave out a row that exits
\* before D 06:00 or after (D+1) 06:00.
C10_ShiftsOverlapAtBoundaries ==
    TresCorridas =>
        \A t \in Turnos :
            \A i \in 1..Len(corridas[t]) :
                LET v == corridas[t][i]
                    n == Cardinality(TurnosDe(i))
                IN /\ \A u \in Turnos :
                        /\ Len(corridas[u]) = Len(corridas[t])
                        /\ corridas[u][i].fechaHoraSalida = v.fechaHoraSalida
                        /\ corridas[u][i].fechaCaptura = v.fechaCaptura
                   /\ (n >= 1) <=> (DesdeLas(v, 6) /\ HastaLas(v, 30))
                   /\ (n = 2) <=> (ALas(v, 14) \/ ALas(v, 22))
                   /\ n <= 2

\* a row whose exit is at 14:00 of its capture date has been found
\* en_rango in the morning and in the afternoon shift
C10_Witness ==
    /\ TresCorridas
    /\ \E i \in 1..Len(corridas["6:00 a.m. - 2:00 p.m."]) :
          /\ ALas(corridas["6:00 a.m. - 2:00 p.m."][i], 14)
          /\ TurnosDe(i) = {"6:00 a.m. - 2:00 p.m.", "2:00 p.m. - 10:00 p.m."}

=============================================================================
